---- MODULE Spec2Model ----
(***************************************************************************)
(* Model of actions/actions.py: the case lookup by identification number   *)
(* (ActionLookupCedula.run), the cached CSV loader (_load_rows) and the    *)
(* minor classification (_row_is_minor_defendido).                         *)
(*                                                                         *)
(* A Python str is a sequence of one-character strings; the literal parts  *)
(* of an f-string are kept as single tokens. None is the value None.       *)
(* A row of csv.DictReader is a function from column names to strings.     *)
(***************************************************************************)
EXTENDS Naturals, Integers, Sequences, FiniteSets, TLC

VARIABLES
    file,        \* the CSV behind DB_PATH: [state, rows]
    cache,       \* _ROWS_CACHE: <<>> is None, <<rows>> is a loaded list
    slot,        \* tracker.get_slot("numero_identificacion") of the last call
    rows,        \* run's local rows in the last call: <<>> is unbound
    msgs,        \* dispatcher.messages of the last call
    ret,         \* the events returned by the last call
    fault,       \* "none", "load" or "raised": how the last call's try block ended
    loadDone,    \* some _load_rows call has returned
    fileAtCall,  \* the state of the file when the last call started
    opened,      \* the last call executed DB_PATH.open
    stored,      \* the last call assigned _ROWS_CACHE
    reads,       \* concurrent lookups: number of times the file was read
    assigns,     \* concurrent lookups: number of assignments to _ROWS_CACHE
    pc,          \* concurrent lookups: each thread's position in run
    loc,         \* concurrent lookups: each thread's local value
    tres,        \* concurrent lookups: each thread's fragments and events
    mrow,        \* classification: the row given to _row_is_minor_defendido
    mres         \* classification: its result

vars == <<file, cache, slot, rows, msgs, ret, fault, loadDone, fileAtCall,
          opened, stored, reads, assigns, pc, loc, tres, mrow, mres>>

(***************************************************************************)
(* Bounds of the model.                                                    *)
(***************************************************************************)
MaxRows == 2
NThreads == 2

(***************************************************************************)
(* Values.                                                                 *)
(***************************************************************************)
None == <<"<None>">>

DigitChars == {"0", "1", "2", "3", "4", "5", "6", "7", "8", "9"}

SpaceChars == {" "}

\* s or ""
OrEmpty(s) == IF s = None THEN <<>> ELSE s

RECURSIVE LStrip(_)
LStrip(s) ==
    IF s # <<>> /\ Head(s) \in SpaceChars THEN LStrip(Tail(s)) ELSE s

RECURSIVE RStrip(_)
RStrip(s) ==
    IF s # <<>> /\ s[Len(s)] \in SpaceChars
    THEN RStrip(SubSeq(s, 1, Len(s) - 1))
    ELSE s

\* str.strip()
Strip(s) == RStrip(LStrip(s))

(***************************************************************************)
(* Header aliases, actions.py lines 41-62.                                 *)
(***************************************************************************)
H_ID == <<"Número de identificación", "Numero de identificacion",
          "numero_identificacion", "Cédula", "Cedula", "cedula">>
H_TIPO_DOC == <<"Tipo de documento", "tipo_documento", "Tipo doc", "tipo_doc",
                "Documento">>
H_DEFENSOR == <<"Defensor asignado", "defensor_asignado">>
H_CORREO == <<"Correo", "correo", "email", "e-mail">>
H_SUP == <<"Supervisor", "supervisor">>
H_SUP_MAIL == <<"Correo supervisor", "Correo Supervisor", "correo_supervisor",
                "email_supervisor">>
H_RAD == <<"Número de radicado", "Numero de radicado", "radicado">>
H_DEP == <<"Departamento">>
H_MUN == <<"Municipio">>
H_JUZ == <<"Juzgado">>
H_INICIO == <<"Inicio de proceso", "Inicio del proceso">>
H_DELITO == <<"Delito">>
H_CAPT == <<"Capturado">>
H_TIPO_CAP == <<"Tipo de captura">>
H_MED == <<"Medida impuesta">>
H_CENTRO == <<"Centro carcelario", "Centro de reclusión", "Centro de reclusion">>
H_ES_MENOR == <<"Es menor", "es_menor", "Menor", "menor", "Menor de edad",
                "menor_de_edad">>
H_EDAD == <<"Edad", "edad">>

(***************************************************************************)
(* Utilities, actions.py lines 67-94.                                      *)
(***************************************************************************)
\* re.sub(r"\D", "", str(s or ""))
_digits(s) == SelectSeq(OrEmpty(s), LAMBDA c : c \in DigitChars)

\* the first non-blank value, stripped, among the candidate keys
RECURSIVE _get(_, _)
_get(row, keys) ==
    IF keys = <<>> THEN <<>>
    ELSE LET k == Head(keys) IN
         IF k \in DOMAIN row /\ row[k] # None /\ Strip(row[k]) # <<>>
         THEN Strip(row[k])
         ELSE _get(row, Tail(keys))

NA == <<"N", "A">>

_val(x) == LET y == Strip(OrEmpty(x)) IN IF y # <<>> THEN y ELSE NA

\* Optional[int]: <<>> is None, <<n>> is the integer n
RECURSIVE DecVal(_)
DecVal(s) ==
    IF s = <<>> THEN 0
    ELSE 10 * DecVal(SubSeq(s, 1, Len(s) - 1))
         + (CHOOSE d \in 0..9 : ToString(d) = s[Len(s)])

AllDigits(s) == \A i \in 1..Len(s) : s[i] \in DigitChars

\* int(t) for a text t of digits and minus signs: ValueError unless [-]digits
IntOf(t) ==
    IF t # <<>> /\ AllDigits(t) THEN <<DecVal(t)>>
    ELSE IF Len(t) >= 2 /\ Head(t) = "-" /\ AllDigits(Tail(t))
         THEN <<0 - DecVal(Tail(t))>>
         ELSE <<>>

\* int(re.sub(r"[^\d\-]", "", str(x))), None on any exception
_to_int(x) == IntOf(SelectSeq(x, LAMBDA c : c \in DigitChars \cup {"-"}))

UpperChars == <<"A", "B", "C", "D", "E", "F", "G", "H", "I", "J", "K", "L", "M",
                "N", "O", "P", "Q", "R", "S", "T", "U", "V", "W", "X", "Y", "Z">>
LowerChars == <<"a", "b", "c", "d", "e", "f", "g", "h", "i", "j", "k", "l", "m",
                "n", "o", "p", "q", "r", "s", "t", "u", "v", "w", "x", "y", "z">>

\* the combining marks unicodedata.combining finds
CombiningChars == {"U+0301", "U+0303"}

\* unicodedata.normalize("NFKD", c) of one character
NFKD(c) ==
    CASE c = "á" -> <<"a", "U+0301">>
      [] c = "é" -> <<"e", "U+0301">>
      [] c = "í" -> <<"i", "U+0301">>
      [] c = "ó" -> <<"o", "U+0301">>
      [] c = "ú" -> <<"u", "U+0301">>
      [] c = "ñ" -> <<"n", "U+0303">>
      [] c = "Á" -> <<"A", "U+0301">>
      [] c = "É" -> <<"E", "U+0301">>
      [] c = "Í" -> <<"I", "U+0301">>
      [] c = "Ó" -> <<"O", "U+0301">>
      [] c = "Ú" -> <<"U", "U+0301">>
      [] c = "Ñ" -> <<"N", "U+0303">>
      [] OTHER -> <<c>>

\* str.lower() of one character
Lower(c) ==
    IF \E i \in 1..Len(UpperChars) : UpperChars[i] = c
    THEN LowerChars[CHOOSE i \in 1..Len(UpperChars) : UpperChars[i] = c]
    ELSE c

RECURSIVE Normalize(_)
Normalize(s) == IF s = <<>> THEN <<>> ELSE NFKD(Head(s)) \o Normalize(Tail(s))

_strip_accents_lower(s) ==
    LET t == SelectSeq(Normalize(OrEmpty(s)), LAMBDA c : c \notin CombiningChars)
    IN  [i \in 1..Len(t) |-> Lower(t[i])]

(***************************************************************************)
(* Minor classification, actions.py lines 117-128.                         *)
(***************************************************************************)
TipoMenor == {<<"t", "i">>,
              <<"t", "a", "r", "j", "e", "t", "a", " ", "d", "e", " ", "i", "d", "e", "n", "t", "i", "d", "a", "d">>,
              <<"t", "a", "r", "j", "e", "t", "a", "_", "i", "d", "e", "n", "t", "i", "d", "a", "d">>,
              <<"t", "a", "r", "j", "e", "t", "a", " ", "i", "d", "e", "n", "t", "i", "d", "a", "d">>}

FlagMenor == {<<"s", "i">>, <<"s", "í">>, <<"t", "r", "u", "e">>, <<"1">>, <<"x">>, <<"y", "e", "s">>}

\* faulty variant of _row_is_minor_defendido: the age test reads edad <= 18
_row_is_minor_defendido_Le18(row) ==
    LET tipo == _strip_accents_lower(_get(row, H_TIPO_DOC))
        edad == _to_int(_get(row, H_EDAD))
        es_menor_flag == _strip_accents_lower(_get(row, H_ES_MENOR))
    IN  IF tipo \in TipoMenor THEN TRUE
        ELSE IF edad # <<>> /\ 0 <= edad[1] /\ edad[1] <= 18 THEN TRUE
        ELSE IF es_menor_flag \in FlagMenor THEN TRUE
        ELSE FALSE

_row_is_minor_defendido(row) ==
    LET tipo == _strip_accents_lower(_get(row, H_TIPO_DOC))
        edad == _to_int(_get(row, H_EDAD))
        es_menor_flag == _strip_accents_lower(_get(row, H_ES_MENOR))
    IN  IF tipo \in TipoMenor THEN TRUE
        ELSE IF edad # <<>> /\ 0 <= edad[1] /\ edad[1] < 18 THEN TRUE
        ELSE IF es_menor_flag \in FlagMenor THEN TRUE
        ELSE FALSE

(***************************************************************************)
(* Fragments and events. A fragment is one dispatcher.utter_message call:  *)
(* its text, line by line, each line the literal label and the value       *)
(* interpolated after it, and its buttons (the title's emoji left out).    *)
(***************************************************************************)
Line(label, value) == [label |-> label, value |-> value]

Button(title, payload) == [title |-> title, payload |-> payload]

Message(text, buttons) == [text |-> text, buttons |-> buttons]

\* SlotSet("numero_identificacion", None)
SlotSetNone == [event |-> "slot", name |-> "numero_identificacion", value |-> None]

Outcome(m, e) == [msgs |-> m, events |-> e]

\* the literal texts of lines 139, 145, 153, 176, 228 and 240
UnavailableText == "No puedo acceder a la base en este momento. Intenta más tarde."

MissingText == "No recibí el número de identificación. ¿Puedes indicarlo de nuevo?"

NotFoundText == "No encontré registros con esa cédula. ¿Quieres intentar de nuevo o hablar con un asesor?"

MinorNotice == "**Caso con persona menor de edad.**"

FollowUpText == "¿Quieres hacer otra consulta o volver al menú?"

FaultText == "Ocurrió un problema al consultar tu proceso. Intenta de nuevo en un momento."

\* faulty variant of UnavailableExit: the early return forgets the SlotSet
UnavailableExit_NoClear ==
    Outcome(<<Message(<<Line(UnavailableText, <<>>)>>, <<>>)>>, <<>>)

\* lines 138-140
UnavailableExit ==
    Outcome(<<Message(<<Line(UnavailableText, <<>>)>>, <<>>)>>, <<SlotSetNone>>)

\* faulty variant of MissingExit: the early return clears the slot
MissingExit_Clears ==
    Outcome(<<Message(<<Line(MissingText, <<>>)>>, <<>>)>>, <<SlotSetNone>>)

\* lines 144-146
MissingExit ==
    Outcome(<<Message(<<Line(MissingText, <<>>)>>, <<>>)>>, <<>>)

\* faulty variant of NotFoundExit: the return forgets the SlotSet
NotFoundExit_NoClear ==
    Outcome(<<Message(<<Line(NotFoundText, <<>>)>>,
                      <<Button("Intentar de nuevo", "/consultar_proceso"),
                        Button("Hablar con una persona", "/hablar_con_humano")>>)>>,
            <<>>)

\* lines 151-159
NotFoundExit ==
    Outcome(<<Message(<<Line(NotFoundText, <<>>)>>,
                      <<Button("Intentar de nuevo", "/consultar_proceso"),
                        Button("Hablar con una persona", "/hablar_con_humano")>>)>>,
            <<SlotSetNone>>)

\* lines 227-233
FollowUpMsg ==
    Message(<<Line(FollowUpText, <<>>)>>,
            <<Button("Consultar otro número de documento", "/consultar_proceso"),
              Button("Menú principal", "/saludar")>>)

\* line 240
FaultMsg ==
    Message(<<Line(FaultText, <<>>)>>, <<>>)

\* faulty variant of Matches: the stored identifier is not normalized
Matches_Raw(store, ced) == SelectSeq(store, LAMBDA r : _get(r, H_ID) = ced)

\* line 149
Matches(store, ced) == SelectSeq(store, LAMBDA r : _digits(_get(r, H_ID)) = ced)

\* lines 167-168
ContactStr(nombre, correo) ==
    (IF nombre # NA THEN nombre ELSE <<"No disponible">>)
    \o (IF correo # NA THEN <<" (">> \o correo \o <<")">> ELSE <<>>)

\* faulty variant of all_minor: the test is inverted
all_minor_Inverted(matches) ==
    \A i \in 1..Len(matches) : ~_row_is_minor_defendido(matches[i])

\* line 171
all_minor(matches) ==
    \A i \in 1..Len(matches) : _row_is_minor_defendido(matches[i])

\* lines 175-180
SummaryMsg(def_str, sup_str) ==
    Message(<<Line(MinorNotice, <<>>),
              Line("**Defensor(a):**", def_str),
              Line("**Supervisor:**", sup_str)>>, <<>>)

\* lines 184-187
HeaderMsg(def_str, sup_str, s_nombre, s_correo) ==
    Message(<<Line("**Defensor asignado:**", def_str)>>
            \o (IF s_nombre # NA \/ s_correo # NA
                THEN <<Line("**Supervisor:**", sup_str)>>
                ELSE <<>>),
            <<>>)

\* faulty variant of Card: the minor check of line 191 is missing
Card_NoRedact(i, r, def_str, sup_str) ==
    LET tcap == _val(_get(r, H_TIPO_CAP)) IN
    Message(<<Line("### Proceso", <<ToString(i)>>),
              Line("**Radicado:**", _val(_get(r, H_RAD))),
              Line("- **Departamento:**", _val(_get(r, H_DEP))),
              Line("- **Municipio:**", _val(_get(r, H_MUN))),
              Line("- **Juzgado:**", _val(_get(r, H_JUZ))),
              Line("- **Inicio de proceso:**", _val(_get(r, H_INICIO))),
              Line("- **Delito:**", _val(_get(r, H_DELITO))),
              Line("- **Capturado:**",
                   _val(_get(r, H_CAPT))
                   \o (IF tcap # NA THEN <<" (">> \o tcap \o <<")">> ELSE <<>>)),
              Line("- **Medida:**", _val(_get(r, H_MED))),
              Line("- **Centro carcelario:**", _val(_get(r, H_CENTRO)))>>, <<>>)

\* lines 191-225: the card of the i-th match
Card(i, r, def_str, sup_str) ==
    IF _row_is_minor_defendido(r)
    THEN Message(<<Line("### Proceso", <<ToString(i)>>),
                   Line(MinorNotice, <<>>),
                   Line("**Defensor(a):**", def_str),
                   Line("**Supervisor:**", sup_str)>>, <<>>)
    ELSE LET tcap == _val(_get(r, H_TIPO_CAP)) IN
         Message(<<Line("### Proceso", <<ToString(i)>>),
                   Line("**Radicado:**", _val(_get(r, H_RAD))),
                   Line("- **Departamento:**", _val(_get(r, H_DEP))),
                   Line("- **Municipio:**", _val(_get(r, H_MUN))),
                   Line("- **Juzgado:**", _val(_get(r, H_JUZ))),
                   Line("- **Inicio de proceso:**", _val(_get(r, H_INICIO))),
                   Line("- **Delito:**", _val(_get(r, H_DELITO))),
                   Line("- **Capturado:**",
                        _val(_get(r, H_CAPT))
                        \o (IF tcap # NA THEN <<" (">> \o tcap \o <<")">> ELSE <<>>)),
                   Line("- **Medida:**", _val(_get(r, H_MED))),
                   Line("- **Centro carcelario:**", _val(_get(r, H_CENTRO)))>>, <<>>)

\* faulty variant of MatchedExit: the contact data are taken from the last
\* match instead of matches[0]
MatchedExit_LastMatch(matches) ==
    LET d_nombre == _val(_get(matches[Len(matches)], H_DEFENSOR))
        d_correo == _val(_get(matches[Len(matches)], H_CORREO))
        s_nombre == _val(_get(matches[Len(matches)], H_SUP))
        s_correo == _val(_get(matches[Len(matches)], H_SUP_MAIL))
        def_str == ContactStr(d_nombre, d_correo)
        sup_str == ContactStr(s_nombre, s_correo)
    IN  Outcome((IF all_minor(matches)
                 THEN <<SummaryMsg(def_str, sup_str)>>
                 ELSE <<HeaderMsg(def_str, sup_str, s_nombre, s_correo)>>
                      \o [i \in 1..Len(matches) |->
                              Card(i, matches[i], def_str, sup_str)])
                \o <<FollowUpMsg>>,
                <<SlotSetNone>>)

\* lines 161-235: the fragments of a non-empty match list
MatchedExit(matches) ==
    LET d_nombre == _val(_get(matches[1], H_DEFENSOR))
        d_correo == _val(_get(matches[1], H_CORREO))
        s_nombre == _val(_get(matches[1], H_SUP))
        s_correo == _val(_get(matches[1], H_SUP_MAIL))
        def_str == ContactStr(d_nombre, d_correo)
        sup_str == ContactStr(s_nombre, s_correo)
    IN  Outcome((IF all_minor(matches)
                 THEN <<SummaryMsg(def_str, sup_str)>>
                 ELSE <<HeaderMsg(def_str, sup_str, s_nombre, s_correo)>>
                      \o [i \in 1..Len(matches) |->
                              Card(i, matches[i], def_str, sup_str)])
                \o <<FollowUpMsg>>,
                <<SlotSetNone>>)

\* lines 138-235: the try block once _load_rows has returned, when
\* nothing raises
TryBody(store, ced_in) ==
    IF store = <<>> THEN UnavailableExit
    ELSE LET ced == _digits(ced_in) IN
         IF ced = <<>> THEN MissingExit
         ELSE LET matches == Matches(store, ced) IN
              IF matches = <<>> THEN NotFoundExit
              ELSE MatchedExit(matches)

\* lines 237-241: the except clause, entered with k fragments already
\* handed to the dispatcher
ExceptExit(emitted) == Outcome(emitted \o <<FaultMsg>>, <<SlotSetNone>>)

(***************************************************************************)
(* _load_rows, lines 100-114, run without interleaving. The result says    *)
(* whether it raised, what it returned and what it left in the globals.    *)
(***************************************************************************)
Loaded(raised, store, c, o, a) ==
    [raised |-> raised, rows |-> store, cache |-> c, opened |-> o, stored |-> a]

\* faulty variant of _load_rows: line 103 tests the cache for truth, so an
\* empty cached list is loaded again
_load_rows_Truthy(f, c) ==
    IF c # <<>> /\ c[1] # <<>> THEN Loaded(FALSE, c[1], c, FALSE, FALSE)
    ELSE IF f.state = "missing" THEN Loaded(FALSE, <<>>, <<(<<>>)>>, FALSE, TRUE)
    ELSE IF f.state = "unreadable" THEN Loaded(TRUE, <<>>, c, TRUE, FALSE)
    ELSE Loaded(FALSE, f.rows, <<f.rows>>, TRUE, TRUE)

_load_rows(f, c) ==
    IF c # <<>> THEN Loaded(FALSE, c[1], c, FALSE, FALSE)
    ELSE IF f.state = "missing" THEN Loaded(FALSE, <<>>, <<(<<>>)>>, FALSE, TRUE)
    ELSE IF f.state = "unreadable" THEN Loaded(TRUE, <<>>, c, TRUE, FALSE)
    ELSE Loaded(FALSE, f.rows, <<f.rows>>, TRUE, TRUE)

(***************************************************************************)
(* The rows the CSV is built from.                                         *)
(***************************************************************************)
\* an adult, identification 1-2, defender with e-mail, supervisor without
RowAdultA ==
    ("Número de identificación" :> <<"1", "-", "2">>)
    @@ ("Tipo de documento" :> <<"C", "C">>)
    @@ ("Edad" :> <<"3", "0">>)
    @@ ("Defensor asignado" :> <<"A", "n", "a">>)
    @@ ("Correo" :> <<"a", "@", "x">>)
    @@ ("Supervisor" :> <<"S", "o", "l">>)
    @@ ("Número de radicado" :> <<"R", "1">>)
    @@ ("Departamento" :> <<"M", "e", "t", "a">>)
    @@ ("Capturado" :> <<"S", "i">>)
    @@ ("Tipo de captura" :> <<"O", "r", "d", "e", "n">>)

\* a minor by document type, identification 12 under the alias Cedula
RowMinorTI ==
    ("Número de identificación" :> <<" ">>)
    @@ ("Cedula" :> <<"1", "2">>)
    @@ ("tipo_documento" :> <<"T", "i">>)
    @@ ("Defensor asignado" :> <<"L", "u", "z">>)
    @@ ("Correo supervisor" :> <<"s", "@", "x">>)
    @@ ("Numero de radicado" :> <<"R", "2">>)
    @@ ("Municipio" :> <<"C", "a", "l", "i">>)

\* a minor by age, identification 1.2, a short row (defender None)
RowMinorAge ==
    ("cedula" :> <<"1", ".", "2">>)
    @@ ("Tipo de documento" :> <<"C", "C">>)
    @@ ("edad" :> <<"1", "7">>)
    @@ ("Defensor asignado" :> None)
    @@ ("Supervisor" :> <<"N", "A">>)
    @@ ("radicado" :> <<"R", "3">>)
    @@ ("Delito" :> <<"H", "u", "r", "t", "o">>)

\* an adult, identification 21, no contact data
RowAdultB ==
    ("Numero de identificacion" :> <<"2", "1">>)
    @@ ("Documento" :> <<"C", "E">>)
    @@ ("Es menor" :> <<"n", "o">>)
    @@ ("Juzgado" :> <<"J", "1">>)
    @@ ("Medida impuesta" :> <<"M", "1">>)
    @@ ("Centro de reclusion" :> <<"C", "1">>)


RowPool == {RowAdultA, RowMinorTI, RowMinorAge, RowAdultB}

RECURSIVE SeqsUpTo(_, _)
SeqsUpTo(S, n) ==
    IF n = 0 THEN {<<>>}
    ELSE LET shorter == SeqsUpTo(S, n - 1) IN
         shorter \cup {Append(q, x) : q \in shorter, x \in S}

\* the contents the CSV may have
Stores == SeqsUpTo(RowPool, MaxRows)

FileStates == {"missing", "unreadable", "ok"}

\* the values the slot numero_identificacion may hold
SlotValues == {None, <<>>, <<"-">>, <<"1", "2">>, <<"1", ".", "2">>, <<"2", "1">>, <<"9">>}

Threads == 1..NThreads

(***************************************************************************)
(* ActionLookupCedula.run, lines 135-241, as one call: _load_rows, the try *)
(* block and the except clause. k is the number of fragments the try block *)
(* has handed to the dispatcher when a statement of it raises; k equal to  *)
(* the number of fragments of the whole block means nothing raised.        *)
(***************************************************************************)
\* TryBody, tabulated once over the stores and slot values of the model
BodyTable ==
    [st \in Stores |-> [ced_in \in SlotValues |-> TryBody(st, ced_in)]]

run(f, c, ced_in, k) ==
    LET L == _load_rows(f, c)
        body == BodyTable[L.rows][ced_in]
        out == IF L.raised THEN ExceptExit(<<>>)
               ELSE IF k < Len(body.msgs) THEN ExceptExit(SubSeq(body.msgs, 1, k))
               ELSE body
    IN  [msgs |-> out.msgs, events |-> out.events,
         fault |-> IF L.raised THEN "load"
                   ELSE IF k < Len(body.msgs) THEN "raised" ELSE "none",
         rows |-> IF L.raised THEN <<>> ELSE <<L.rows>>,
         cache |-> L.cache, opened |-> L.opened, stored |-> L.stored]

\* the number of fragments the try block emits when nothing raises
Fragments(f, c, ced_in) ==
    Len(BodyTable[_load_rows(f, c).rows][ced_in].msgs)

Init ==
    /\ file \in [state : FileStates, rows : Stores]
    /\ cache = <<>>
    /\ slot = None
    /\ rows = <<>>
    /\ msgs = <<>>
    /\ ret = <<>>
    /\ fault = "idle"
    /\ loadDone = FALSE
    /\ fileAtCall = "idle"
    /\ opened = FALSE
    /\ stored = FALSE
    /\ reads = 0
    /\ assigns = 0
    /\ pc = [t \in Threads |-> "idle"]
    /\ loc = [t \in Threads |-> <<>>]
    /\ tres = [t \in Threads |-> Outcome(<<>>, <<>>)]
    /\ mrow = <<>>
    /\ mres = "pending"

\* one lookup, from the call of run to its return
Lookup ==
    \E ced_in \in SlotValues :
      \E k \in 0..Fragments(file, cache, ced_in) :
        LET res == run(file, cache, ced_in, k) IN
        /\ slot' = ced_in
        /\ rows' = res.rows
        /\ msgs' = res.msgs
        /\ ret' = res.events
        /\ fault' = res.fault
        /\ cache' = res.cache
        /\ opened' = res.opened
        /\ stored' = res.stored
        /\ loadDone' = (loadDone \/ res.rows # <<>>)
        /\ fileAtCall' = file.state
        /\ UNCHANGED <<file, reads, assigns, pc, loc, tres, mrow, mres>>

\* the environment: the CSV is removed, made unreadable or put back
FileChange ==
    \E st \in FileStates \ {file.state} :
        /\ file' = [file EXCEPT !.state = st]
        /\ UNCHANGED <<cache, slot, rows, msgs, ret, fault, loadDone, fileAtCall,
                       opened, stored, reads, assigns, pc, loc, tres, mrow, mres>>

Next == Lookup \/ FileChange

Spec == Init /\ [][Next]_vars

(***************************************************************************)
(* Concurrent lookups: each thread runs run once, _load_rows statement by  *)
(* statement (its reads and writes of the global _ROWS_CACHE are separate  *)
(* steps), then the rest of the try block, which touches no shared state.  *)
(***************************************************************************)
ConcStores == {<<>>, <<RowAdultA>>}

ConcSlots == {<<"1", "2">>, <<"9">>}

ConcInit ==
    /\ file \in [state : FileStates, rows : ConcStores]
    /\ cache = <<>>
    /\ slot = None
    /\ rows = <<>>
    /\ msgs = <<>>
    /\ ret = <<>>
    /\ fault = "idle"
    /\ loadDone = FALSE
    /\ fileAtCall = "idle"
    /\ opened = FALSE
    /\ stored = FALSE
    /\ reads = 0
    /\ assigns = 0
    /\ pc = [t \in Threads |-> "idle"]
    /\ loc = [t \in Threads |-> <<>>]
    /\ tres = [t \in Threads |-> Outcome(<<>>, <<>>)]
    /\ mrow = <<>>
    /\ mres = "pending"

Seq1 == <<slot, rows, msgs, ret, fault, loadDone, fileAtCall, opened, stored,
          mrow, mres>>

Goto(t, label) == pc' = [pc EXCEPT ![t] = label]

\* line 137: run calls _load_rows
Call(t) ==
    /\ pc[t] = "idle"
    /\ Goto(t, "l103")
    /\ UNCHANGED <<file, cache, reads, assigns, loc, tres, Seq1>>

\* lines 103-104: if _ROWS_CACHE is not None: return _ROWS_CACHE
CheckCache(t) ==
    /\ pc[t] = "l103"
    /\ IF cache # <<>>
       THEN loc' = [loc EXCEPT ![t] = cache] /\ Goto(t, "try")
       ELSE loc' = loc /\ Goto(t, "l105")
    /\ UNCHANGED <<file, cache, reads, assigns, tres, Seq1>>

\* line 105: if not DB_PATH.exists()
CheckExists(t) ==
    /\ pc[t] = "l105"
    /\ IF file.state = "missing" THEN Goto(t, "l107") ELSE Goto(t, "l109")
    /\ UNCHANGED <<file, cache, reads, assigns, loc, tres, Seq1>>

\* line 107: _ROWS_CACHE = []
AssignEmpty(t) ==
    /\ pc[t] = "l107"
    /\ cache' = <<(<<>>)>>
    /\ assigns' = assigns + 1
    /\ Goto(t, "l108")
    /\ UNCHANGED <<file, reads, loc, tres, Seq1>>

\* lines 109-110, right-hand side: list(csv.DictReader(f)); open raises on
\* an unreadable file
ReadFile(t) ==
    /\ pc[t] = "l109"
    /\ IF file.state = "unreadable"
       THEN Goto(t, "except") /\ UNCHANGED <<loc, reads>>
       ELSE /\ loc' = [loc EXCEPT ![t] = <<file.rows>>]
            /\ reads' = reads + 1
            /\ Goto(t, "l110")
    /\ UNCHANGED <<file, cache, assigns, tres, Seq1>>

\* line 110, the assignment to _ROWS_CACHE
AssignCache(t) ==
    /\ pc[t] = "l110"
    /\ cache' = loc[t]
    /\ assigns' = assigns + 1
    /\ Goto(t, "l114")
    /\ UNCHANGED <<file, reads, loc, tres, Seq1>>

\* lines 108 and 114: return _ROWS_CACHE
ReturnCache(t) ==
    /\ pc[t] \in {"l108", "l114"}
    /\ loc' = [loc EXCEPT ![t] = cache]
    /\ Goto(t, "try")
    /\ UNCHANGED <<file, cache, reads, assigns, tres, Seq1>>

\* lines 138-235 on the rows _load_rows returned
RunBody(t) ==
    /\ pc[t] = "try"
    /\ \E ced_in \in ConcSlots :
          tres' = [tres EXCEPT ![t] = BodyTable[loc[t][1]][ced_in]]
    /\ Goto(t, "done")
    /\ UNCHANGED <<file, cache, reads, assigns, loc, Seq1>>

\* lines 237-241
RunExcept(t) ==
    /\ pc[t] = "except"
    /\ tres' = [tres EXCEPT ![t] = ExceptExit(<<>>)]
    /\ Goto(t, "done")
    /\ UNCHANGED <<file, cache, reads, assigns, loc, Seq1>>

ConcNext ==
    \E t \in Threads :
        \/ Call(t)
        \/ CheckCache(t)
        \/ CheckExists(t)
        \/ AssignEmpty(t)
        \/ ReadFile(t)
        \/ AssignCache(t)
        \/ ReturnCache(t)
        \/ RunBody(t)
        \/ RunExcept(t)

ConcSpec == ConcInit /\ [][ConcNext]_vars

(***************************************************************************)
(* The classification alone: a row is drawn, _row_is_minor_defendido is    *)
(* applied to it.                                                          *)
(***************************************************************************)
TipoValues == {<<"T", "I">>,
               <<"t", "í">>,
               <<"T", "a", "r", "j", "e", "t", "a", " ", "d", "e", " ", "I", "d", "e", "n", "t", "i", "d", "a", "d">>,
               <<"T", "A", "R", "J", "E", "T", "A", "_", "I", "D", "E", "N", "T", "I", "D", "A", "D">>,
               <<"C", "C">>,
               <<>>,
               <<"T", ".", "I", ".">>}

EdadValues == {<<>>,
               <<"1", "7">>,
               <<"1", "8">>,
               <<"0">>,
               <<"-", "1">>,
               <<"3", "0">>,
               <<"a", "b", "c">>,
               <<"1", "-", "7">>,
               <<"1", "7", " ", "a">>}

FlagValues == {<<>>,
               <<"S", "í">>,
               <<"n", "o">>,
               <<"X">>,
               <<"T", "r", "u", "e">>,
               <<"0">>,
               <<"1">>}

MinorRows ==
    {("Tipo de documento" :> t) @@ ("Edad" :> e) @@ ("Es menor" :> f) :
        t \in TipoValues, e \in EdadValues, f \in FlagValues}

MinorInit ==
    /\ mrow \in MinorRows
    /\ mres = "pending"
    /\ file = [state |-> "missing", rows |-> <<>>]
    /\ cache = <<>>
    /\ slot = None
    /\ rows = <<>>
    /\ msgs = <<>>
    /\ ret = <<>>
    /\ fault = "idle"
    /\ loadDone = FALSE
    /\ fileAtCall = "idle"
    /\ opened = FALSE
    /\ stored = FALSE
    /\ reads = 0
    /\ assigns = 0
    /\ pc = [t \in Threads |-> "idle"]
    /\ loc = [t \in Threads |-> <<>>]
    /\ tres = [t \in Threads |-> Outcome(<<>>, <<>>)]

Classify ==
    /\ mres = "pending"
    /\ mres' = IF _row_is_minor_defendido(mrow) THEN "minor" ELSE "adult"
    /\ UNCHANGED <<mrow, file, cache, slot, rows, msgs, ret, fault, loadDone,
                   fileAtCall, opened, stored, reads, assigns, pc, loc, tres>>

MinorNext == Classify

MinorSpec == MinorInit /\ [][MinorNext]_vars

(***************************************************************************)
(* What the properties below speak of.                                     *)
(***************************************************************************)
\* the last call went through its try block without raising
Completed == fault = "none"

\* the last call got a non-empty Store from _load_rows
StoreNonEmpty == rows # <<>> /\ rows[1] # <<>>

\* the Store the last call worked on
Store == rows[1]

\* the positions of the Store's records whose digit-only identifier equals
\* the digit-only form of the slot value
MatchIdx ==
    {i \in 1..Len(Store) : _digits(_get(Store[i], H_ID)) = _digits(slot)}

\* the last call was a lookup with an identifier holding a digit that
\* matched at least one record
Matched ==
    Completed /\ StoreNonEmpty /\ _digits(slot) # <<>> /\ MatchIdx # {}

\* the matching positions in store order
MatchOrder ==
    CHOOSE q \in [1..Cardinality(MatchIdx) -> MatchIdx] :
        \A i, j \in 1..Cardinality(MatchIdx) : i < j => q[i] < q[j]

CaseLabels ==
    {"**Radicado:**", "- **Departamento:**", "- **Municipio:**",
     "- **Juzgado:**", "- **Inicio de proceso:**", "- **Delito:**",
     "- **Capturado:**", "- **Medida:**", "- **Centro carcelario:**"}

Labels(m) == [i \in 1..Len(m.text) |-> m.text[i].label]

NoCaseField(m) == \A i \in 1..Len(m.text) : m.text[i].label \notin CaseLabels

\* the value printed after a label of a fragment
ValueOf(m, label) ==
    m.text[CHOOSE i \in 1..Len(m.text) : m.text[i].label = label].value

IsSummary(m) ==
    /\ Labels(m) = <<MinorNotice, "**Defensor(a):**", "**Supervisor:**">>
    /\ m.buttons = <<>>

IsHeader(m) ==
    /\ Labels(m) \in {<<"**Defensor asignado:**">>,
                      <<"**Defensor asignado:**", "**Supervisor:**">>}
    /\ m.buttons = <<>>

IsRedactedCard(m, j) ==
    /\ Labels(m) = <<"### Proceso", MinorNotice, "**Defensor(a):**",
                     "**Supervisor:**">>
    /\ m.text[1].value = <<ToString(j)>>
    /\ m.buttons = <<>>

Prefix(p, q) == Len(p) <= Len(q) /\ SubSeq(q, 1, Len(p)) = p

IsFullCardOf(m, j, r) ==
    /\ Labels(m) = <<"### Proceso", "**Radicado:**", "- **Departamento:**",
                     "- **Municipio:**", "- **Juzgado:**",
                     "- **Inicio de proceso:**", "- **Delito:**",
                     "- **Capturado:**", "- **Medida:**",
                     "- **Centro carcelario:**">>
    /\ m.text[1].value = <<ToString(j)>>
    /\ ValueOf(m, "**Radicado:**") = _val(_get(r, H_RAD))
    /\ ValueOf(m, "- **Departamento:**") = _val(_get(r, H_DEP))
    /\ ValueOf(m, "- **Municipio:**") = _val(_get(r, H_MUN))
    /\ ValueOf(m, "- **Juzgado:**") = _val(_get(r, H_JUZ))
    /\ ValueOf(m, "- **Inicio de proceso:**") = _val(_get(r, H_INICIO))
    /\ ValueOf(m, "- **Delito:**") = _val(_get(r, H_DELITO))
    /\ Prefix(_val(_get(r, H_CAPT)), ValueOf(m, "- **Capturado:**"))
    /\ ValueOf(m, "- **Medida:**") = _val(_get(r, H_MED))
    /\ ValueOf(m, "- **Centro carcelario:**") = _val(_get(r, H_CENTRO))
    /\ m.buttons = <<>>

Payloads(m) == [i \in 1..Len(m.buttons) |-> m.buttons[i].payload]

IsFollowUp(m) ==
    /\ Labels(m) = <<FollowUpText>>
    /\ Payloads(m) = <<"/consultar_proceso", "/saludar">>

IsNotFound(m) ==
    /\ Labels(m) = <<NotFoundText>>
    /\ Payloads(m) = <<"/consultar_proceso", "/hablar_con_humano">>

AllMatchesMinor == \A i \in MatchIdx : _row_is_minor_defendido(Store[i])

\* the last call took the exit for a missing identifier
MissingIdentifierExit == Completed /\ StoreNonEmpty /\ _digits(slot) = <<>>

\* the last call got an empty Store from _load_rows
EmptyStoreCall == Completed /\ rows = <<(<<>>)>>

\* the TI spellings and the truthy flags among the values drawn
TISpellings == {<<"T", "I">>,
                <<"t", "í">>,
                <<"T", "a", "r", "j", "e", "t", "a", " ", "d", "e", " ", "I", "d", "e", "n", "t", "i", "d", "a", "d">>,
                <<"T", "A", "R", "J", "E", "T", "A", "_", "I", "D", "E", "N", "T", "I", "D", "A", "D">>}

TruthyFlags == {<<"S", "í">>,
                <<"X">>,
                <<"T", "r", "u", "e">>,
                <<"1">>}

TipoSignal(row) == row["Tipo de documento"] \in TISpellings

AgeSignal(row) ==
    LET a == _to_int(row["Edad"]) IN a # <<>> /\ a[1] \in 0..17

FlagSignal(row) == row["Es menor"] \in TruthyFlags

(***************************************************************************)
(* C1. As claimed: when every matched record is classified minor, the      *)
(* lookup emits exactly one fragment, which holds no case-specific field.  *)
(***************************************************************************)
C1_OneFragmentOnly ==
    (Matched /\ AllMatchesMinor) =>
        /\ Len(msgs) = 1
        /\ IsSummary(msgs[1])
        /\ NoCaseField(msgs[1])

\* C1, amended: when every matched record is classified minor, the lookup
\* emits exactly two fragments, the redacted summary (minor notice, defender,
\* supervisor) and then the follow-up fragment; no fragment holds a
\* case-specific field.
C1_SummaryThenFollowUp ==
    (Matched /\ AllMatchesMinor) =>
        /\ Len(msgs) = 2
        /\ IsSummary(msgs[1])
        /\ IsFollowUp(msgs[2])
        /\ \A i \in 1..Len(msgs) : NoCaseField(msgs[i])

C1_Witness ==
    /\ Matched
    /\ AllMatchesMinor
    /\ Cardinality(MatchIdx) = 2
    /\ Len(Store) = 2

(***************************************************************************)
(* C2. When at least one matched record is not minor, the lookup emits the *)
(* header, then one card per matched record in store order (redacted for a *)
(* minor record, full detail otherwise), then the follow-up fragment.      *)
(***************************************************************************)
C2_HeaderCardsFollowUp ==
    (Matched /\ ~AllMatchesMinor) =>
        LET n == Cardinality(MatchIdx) IN
        /\ Len(msgs) = n + 2
        /\ IsHeader(msgs[1])
        /\ \A j \in 1..n :
              LET r == Store[MatchOrder[j]] IN
              IF _row_is_minor_defendido(r)
              THEN IsRedactedCard(msgs[j + 1], j) /\ NoCaseField(msgs[j + 1])
              ELSE IsFullCardOf(msgs[j + 1], j, r)
        /\ IsFollowUp(msgs[n + 2])

C2_Witness ==
    /\ Matched
    /\ Store = <<RowMinorTI, RowAdultA>>
    /\ Len(msgs) = 4

(***************************************************************************)
(* C3. Every call returns the SlotSet that clears numero_identificacion,   *)
(* except the exit for a missing identifier, which returns no event.       *)
(***************************************************************************)
C3_SlotCleared ==
    fault # "idle" =>
        IF MissingIdentifierExit THEN ret = <<>> ELSE ret = <<SlotSetNone>>

C3_Witness ==
    /\ Matched
    /\ ret = <<SlotSetNone>>
    /\ fileAtCall = "ok"

(***************************************************************************)
(* C4. As claimed: with an empty Store the lookup emits only the           *)
(* service-unavailable notice and does not clear the slot.                 *)
(***************************************************************************)
C4_UnavailableNoClear ==
    EmptyStoreCall =>
        /\ Len(msgs) = 1
        /\ Labels(msgs[1]) = <<UnavailableText>>
        /\ ret = <<>>

\* C4, amended: with an empty Store the lookup, whatever the identifier,
\* emits only the service-unavailable notice and returns the SlotSet that
\* clears the slot.
C4_UnavailableAndClear ==
    EmptyStoreCall =>
        /\ Len(msgs) = 1
        /\ Labels(msgs[1]) = <<UnavailableText>>
        /\ msgs[1].buttons = <<>>
        /\ ret = <<SlotSetNone>>

C4_Witness ==
    /\ EmptyStoreCall
    /\ _digits(slot) = <<>>
    /\ fileAtCall = "missing"

(***************************************************************************)
(* C5. With a non-empty Store and a slot value without any digit, the      *)
(* lookup emits only the missing-identifier fragment, returns no event and *)
(* leaves the Store as it was (or as this call loaded it).                 *)
(***************************************************************************)
C5_MissingIdentifier ==
    [][(MissingIdentifierExit' /\ file' = file) =>
          /\ Len(msgs') = 1
          /\ Labels(msgs'[1]) = <<MissingText>>
          /\ msgs'[1].buttons = <<>>
          /\ ret' = <<>>
          /\ (cache # <<>> => cache' = cache)
          /\ cache' = rows']_vars

C5_Witness ==
    /\ MissingIdentifierExit
    /\ slot = <<"-">>

(***************************************************************************)
(* C6. With a non-empty Store and a slot value holding a digit, the lookup *)
(* ends not-found (one fragment with the retry and the talk-to-a-person    *)
(* buttons, and the SlotSet) exactly when no record's digit-only           *)
(* identifier equals the digit-only slot value; slot values with the same  *)
(* digits give the same fragments.                                         *)
(***************************************************************************)
C6_NotFoundIffNoMatch ==
    (Completed /\ StoreNonEmpty /\ _digits(slot) # <<>>) =>
        /\ (MatchIdx = {}) <=>
              (Len(msgs) = 1 /\ IsNotFound(msgs[1]) /\ ret = <<SlotSetNone>>)
        /\ (MatchIdx # {}) => (Len(msgs) >= 2 /\ ~IsNotFound(msgs[1]))
        /\ \A other \in SlotValues :
              _digits(other) = _digits(slot) =>
                  BodyTable[Store][other].msgs = msgs

C6_Witness ==
    /\ Completed
    /\ slot = <<"1", ".", "2">>
    /\ Store = <<RowAdultB, RowAdultA>>
    /\ Len(msgs) = 3

(***************************************************************************)
(* C7. A row is classified minor exactly when its document type is a TI    *)
(* spelling, or its age read by _to_int lies in 0..17, or its flag is a    *)
(* truthy value; a TI type alone suffices, an age _to_int cannot read adds *)
(* nothing, and turning a signal on never makes a minor row adult.         *)
(***************************************************************************)
C7_MinorIffSignal ==
    mres # "pending" =>
        /\ (mres = "minor") <=>
              (TipoSignal(mrow) \/ AgeSignal(mrow) \/ FlagSignal(mrow))
        /\ TipoSignal(mrow) => mres = "minor"
        /\ (mres = "minor") =>
              /\ \A t \in TISpellings :
                    _row_is_minor_defendido(
                        [mrow EXCEPT !["Tipo de documento"] = t])
              /\ \A e \in {x \in EdadValues : _to_int(x) # <<>>
                                              /\ _to_int(x)[1] \in 0..17} :
                    _row_is_minor_defendido([mrow EXCEPT !["Edad"] = e])
              /\ \A f \in TruthyFlags :
                    _row_is_minor_defendido([mrow EXCEPT !["Es menor"] = f])

C7_Witness ==
    /\ mres = "minor"
    /\ TipoSignal(mrow)
    /\ mrow["Edad"] = <<"3", "0">>
    /\ mrow["Es menor"] = <<"n", "o">>

(***************************************************************************)
(* C8. Once a call of _load_rows has returned, no step changes the cached  *)
(* Store, and every later lookup gets that Store without opening the file  *)
(* or assigning the cache, also when the cached Store is the empty one of  *)
(* a missing file and the file has appeared since.                         *)
(***************************************************************************)
C8_LoadedOnce ==
    [][loadDone =>
          /\ cache' = cache
          /\ (file' = file => (rows' = cache /\ ~opened' /\ ~stored'))]_vars

C8_Witness ==
    /\ loadDone
    /\ cache = <<(<<>>)>>
    /\ fileAtCall = "ok"
    /\ file.rows # <<>>
    /\ Completed
    /\ Labels(msgs[1]) = <<UnavailableText>>

(***************************************************************************)
(* C9. As claimed: however the concurrent lookups interleave, the file is  *)
(* read at most once and _ROWS_CACHE is assigned at most once.             *)
(***************************************************************************)
C9_InitializedOnce == reads <= 1 /\ assigns <= 1

(***************************************************************************)
(* C10. As claimed: when a statement of the try block raises, the call     *)
(* still returns, its output is the single try-again-later fragment, and   *)
(* the SlotSet is returned.                                                *)
(***************************************************************************)
C10_SingleFaultFragment ==
    fault \in {"load", "raised"} =>
        /\ Len(msgs) = 1
        /\ Labels(msgs[1]) = <<FaultText>>
        /\ ret = <<SlotSetNone>>

\* the last call ran the load of _load_rows (the cache was still None) on a
\* backing file that was missing or could not be read, and no statement after
\* the load was made to raise
LoadOnBadFile ==
    /\ fault \in {"none", "load"}
    /\ opened \/ stored
    /\ fileAtCall \in {"missing", "unreadable"}

(***************************************************************************)
(* C11. As claimed: when the backing file is missing or unreadable at load *)
(* time, _load_rows does not raise, the empty Store is what it yields and  *)
(* caches, and the lookup emits the service-unavailable notice, not the    *)
(* internal-fault message.                                                 *)
(***************************************************************************)
C11_BadFileIsUnavailable ==
    LoadOnBadFile =>
        /\ fault = "none"
        /\ rows = <<(<<>>)>>
        /\ cache = <<(<<>>)>>
        /\ Len(msgs) = 1
        /\ Labels(msgs[1]) = <<UnavailableText>>

\* the display form of a contact of record r: the name, or "No disponible"
\* in its place when the name is not available, followed by the e-mail in
\* parentheses when the e-mail is present
DisplayForm(r, nameKeys, mailKeys) ==
    LET name == _val(_get(r, nameKeys))
        mail == _val(_get(r, mailKeys))
    IN  CASE name # NA /\ mail # NA -> name \o <<" (">> \o mail \o <<")">>
          [] name # NA /\ mail = NA -> name
          [] name = NA /\ mail = NA -> <<"No disponible">>
          [] name = NA /\ mail # NA ->
                 <<"No disponible">> \o <<" (">> \o mail \o <<")">>

DefenderLabels == {"**Defensor asignado:**", "**Defensor(a):**"}

\* the defender and the supervisor strings a fragment shows
DefenderShown(m) ==
    {m.text[l].value : l \in {k \in 1..Len(m.text) :
                                   m.text[k].label \in DefenderLabels}}

SupervisorShown(m) ==
    {m.text[l].value : l \in {k \in 1..Len(m.text) :
                                   m.text[k].label = "**Supervisor:**"}}

(***************************************************************************)
(* C12. On a matched lookup every defender string and every supervisor     *)
(* string shown, in the summary, the header and the cards, is the display  *)
(* form of the first matching record's contact: "Name (email)" when the    *)
(* e-mail is present, "Name" alone when it is absent, with "No disponible" *)
(* standing for a name that is not available; the first fragment shows the *)
(* defender, and so does every redacted fragment, with the supervisor.     *)
(***************************************************************************)
C12_ContactsOfFirstMatch ==
    Matched =>
        LET first == Store[MatchOrder[1]]
            def_form == DisplayForm(first, H_DEFENSOR, H_CORREO)
            sup_form == DisplayForm(first, H_SUP, H_SUP_MAIL)
        IN  /\ DefenderShown(msgs[1]) = {def_form}
            /\ \A i \in 1..Len(msgs) :
                  /\ DefenderShown(msgs[i]) \subseteq {def_form}
                  /\ SupervisorShown(msgs[i]) \subseteq {sup_form}
                  /\ MinorNotice \in {msgs[i].text[l].label :
                                          l \in 1..Len(msgs[i].text)}
                         => /\ DefenderShown(msgs[i]) = {def_form}
                            /\ SupervisorShown(msgs[i]) = {sup_form}

\* two matches with different contacts: the first has a defender without
\* e-mail and a supervisor e-mail without a name, and the card of the second
\* match is not redacted
C12_Witness ==
    /\ Matched
    /\ Store = <<RowMinorTI, RowAdultA>>
    /\ Cardinality(MatchIdx) = 2
    /\ ValueOf(msgs[1], "**Defensor asignado:**") = <<"L", "u", "z">>
    /\ ValueOf(msgs[1], "**Supervisor:**")
           = <<"No disponible", " (", "s", "@", "x", ")">>
    /\ ValueOf(msgs[2], "**Defensor(a):**") = <<"L", "u", "z">>

\* the first match has every contact field: both strings are "Name (email)"
\* or "Name", and a later redacted card repeats them
C12_WitnessNamed ==
    /\ Matched
    /\ Store = <<RowAdultA, RowMinorTI>>
    /\ Cardinality(MatchIdx) = 2
    /\ ValueOf(msgs[1], "**Defensor asignado:**")
           = <<"A", "n", "a", " (", "a", "@", "x", ")">>
    /\ ValueOf(msgs[3], "**Supervisor:**") = <<"S", "o", "l">>

====
